---- MODULE Spec2Model ----
(***************************************************************************)
(* The movement ledger of the campus gate tracker: the movement_logs       *)
(* table with its constraints, and the server handlers that write it       *)
(* (createMovementLog, recordVendorMovement, updateStudentMovementRequest) *)
(* and read it (getStudentStatus, getMovementLogs); and the guest visit     *)
(* requests: the guest_requests and guests tables, the handlers that write *)
(* them (createGuestRequest, updateGuestRequestStatus) and the gate's      *)
(* lookup of an entry code (validateGuestCode); and the dashboard's        *)
(* loads of the store's content (loadData) and its debounced reload on     *)
(* the store's change notifications (triggerReload).                       *)
(***************************************************************************)
EXTENDS Integers, Sequences, FiniteSets, TLC

\* ------------------------------------------------------------------ bounds
MaxLogs == 2        \* rows the ledger may hold
MaxRequests == 2    \* guest visit requests the store may hold
MaxUpdates == 2     \* updates of a guest visit request's status
MaxNotifications == 3  \* change notifications a dashboard receives
WindowSteps == 3    \* steps of time the debounce window is divided into

\* ------------------------------------------------------------- directory
NULL == "NULL"      \* SQL NULL, JSON null, an absent body field

\* public.users: students, gate staff and council members share one table
Students == {"s1", "s2"}
Officers == {"g1", "g2"}
Council == {"c1", "c2"}
users == Students \cup Officers \cup Council
guests == {"gu1"}
vendors == {"v1"}
Unknown == "x"      \* an id no table holds

\* JavaScript truthiness of a body field: undefined, null and '' are falsy
Truthy(x) == x \notin {NULL, ""}

\* remarks are texts, kept as the sequence of their parts; <<>> is ''/NULL
NoRemarks == <<>>

VARIABLES
    movement_logs,  \* the ledger: a sequence of rows, a row's id is its index
    now,            \* the clock: the latest timestamp handed out
    call,           \* per gate officer: the updateStudentMovementRequest call in flight
    last,           \* the HTTP status of the last response the server sent
    guest_requests, \* public.guest_requests: a sequence of rows, a row's id is its index
    guest_rows,     \* public.guests: a sequence of rows, a row's id is its index
    creating,       \* the createGuestRequest call in flight
    approval,       \* per council member: the updateGuestRequestStatus call in flight
    updates,        \* how many times a request's status has been updated
    user,           \* the dashboard: the user logged in, NULL when none is
    realtimeDebounceRef, \* the dashboard: ms left of the pending timeout, or NoTimer
    elapsed,        \* ms since the last change notification, up to Debounce
    unserved,       \* change notifications since the last loadData
    notified,       \* change notifications the dashboard has received
    refreshes,      \* runs of loadData started by the timeout
    loads,          \* the dashboard: the results of the loadData calls in flight
    latestLoad,     \* the result of the loadData call started last
    logs,           \* the dashboard's state: the movements it shows
    guestRequests   \* the dashboard's state: the visit requests it shows

movementVars == <<movement_logs, now, call>>
guestVars == <<guest_requests, guest_rows, creating, approval, updates>>
clientVars == <<user, realtimeDebounceRef, elapsed, unserved, notified, refreshes,
                loads, latestLoad, logs, guestRequests>>
vars == <<movement_logs, now, call, last,
          guest_requests, guest_rows, creating, approval, updates,
          user, realtimeDebounceRef, elapsed, unserved, notified, refreshes,
          loads, latestLoad, logs, guestRequests>>

\* ----------------------------------------------------------- the store
\* CHECK (status IN ('PENDING', 'COMPLETED'))
movement_logs_status_check == {"PENDING", "COMPLETED"}

\* a table with its checks and without its foreign keys
movement_logs_constraints_without_fkeys(row) ==
    /\ row.movement_type \in {"ENTRY", "EXIT"}
    /\ row.entity_type \in {"STUDENT", "GUEST", "VENDOR"}
    /\ row.status \in movement_logs_status_check

\* what the store accepts as a row of movement_logs: checks and foreign keys
movement_logs_constraints(row) ==
    /\ row.movement_type \in {"ENTRY", "EXIT"}
    /\ row.entity_type \in {"STUDENT", "GUEST", "VENDOR"}
    /\ row.status \in movement_logs_status_check
    /\ row.gate_user_id = NULL \/ row.gate_user_id \in users
    /\ row.student_id = NULL \/ row.student_id \in users
    /\ row.guest_id = NULL \/ row.guest_id \in guests
    /\ row.vendor_id = NULL \/ row.vendor_id \in vendors

Ids == 1..Len(movement_logs)

\* the timestamp of a write: the column default now() of an insert, new
\* Date() of an update; every write falls later than the writes before it
Instants == {now + 1}

NoTime == 0 - 1     \* lastMovementTime: null

\* ------------------------------------------------- createMovementLog
\* a student's movement is a request whoever sends it
CreateStatusStudentAlwaysPending(entityType, gateUserId) ==
    IF entityType = "STUDENT" THEN "PENDING" ELSE "COMPLETED"

CreateStatus(entityType, gateUserId) ==
    IF entityType = "STUDENT" /\ ~Truthy(gateUserId) THEN "PENDING" ELSE "COMPLETED"

\* the validation without the check that GUEST and VENDOR need an officer
CreateValidationNoOfficerCheck(b) ==
    IF ~Truthy(b.movementType) \/ ~Truthy(b.entityType) THEN "Missing required fields"
    ELSE IF b.movementType \notin {"ENTRY", "EXIT"} THEN "Invalid movementType"
    ELSE IF b.entityType \notin {"STUDENT", "GUEST", "VENDOR"} THEN "Invalid entityType"
    ELSE IF b.entityType = "STUDENT" /\ ~Truthy(b.studentId) THEN "studentId is required"
    ELSE IF b.entityType = "GUEST" /\ ~Truthy(b.guestId) THEN "guestId is required"
    ELSE IF b.entityType = "VENDOR" /\ ~Truthy(b.vendorId) THEN "vendorId is required"
    ELSE ""

\* the first validation that fails, "" when none does
CreateValidation(b) ==
    IF ~Truthy(b.movementType) \/ ~Truthy(b.entityType) THEN "Missing required fields"
    ELSE IF b.movementType \notin {"ENTRY", "EXIT"} THEN "Invalid movementType"
    ELSE IF b.entityType \notin {"STUDENT", "GUEST", "VENDOR"} THEN "Invalid entityType"
    ELSE IF b.entityType # "STUDENT" /\ ~Truthy(b.gateUserId) THEN "Missing required field"
    ELSE IF b.entityType = "STUDENT" /\ ~Truthy(b.studentId) THEN "studentId is required"
    ELSE IF b.entityType = "GUEST" /\ ~Truthy(b.guestId) THEN "guestId is required"
    ELSE IF b.entityType = "VENDOR" /\ ~Truthy(b.vendorId) THEN "vendorId is required"
    ELSE ""

\* the row with every entity id the body carries
LogDataFromBody(b, t) ==
    [ timestamp     |-> t,
      movement_type |-> b.movementType,
      entity_type   |-> b.entityType,
      gate_user_id  |-> IF Truthy(b.gateUserId) THEN b.gateUserId ELSE NULL,
      status        |-> IF b.entityType = "STUDENT" /\ ~Truthy(b.gateUserId)
                        THEN "PENDING" ELSE "COMPLETED",
      remarks       |-> b.remarks,
      student_id    |-> b.studentId,
      guest_id      |-> b.guestId,
      vendor_id     |-> b.vendorId ]

\* the row createMovementLog inserts; timestamp is the column default now()
LogData(b, t) ==
    [ timestamp     |-> t,
      movement_type |-> b.movementType,
      entity_type   |-> b.entityType,
      gate_user_id  |-> IF Truthy(b.gateUserId) THEN b.gateUserId ELSE NULL,
      status        |-> CreateStatus(b.entityType, b.gateUserId),
      remarks       |-> b.remarks,
      student_id    |-> IF b.entityType = "STUDENT" THEN b.studentId ELSE NULL,
      guest_id      |-> IF b.entityType = "GUEST" THEN b.guestId ELSE NULL,
      vendor_id     |-> IF b.entityType = "VENDOR" THEN b.vendorId ELSE NULL ]

CreateBody(movementType, entityType, gateUserId, studentId, guestId, vendorId, remarks) ==
    [ movementType |-> movementType, entityType |-> entityType,
      gateUserId |-> gateUserId, studentId |-> studentId, guestId |-> guestId,
      vendorId |-> vendorId, remarks |-> remarks ]

\* request bodies: a student's own request; a movement logged by an officer,
\* the body carrying an id for every entity kind; and the bodies with a
\* field missing, out of its enumeration, or naming an id no table holds
CreateBodies ==
    { CreateBody("ENTRY", "STUDENT", NULL, "s1", NULL, NULL, NoRemarks),
      CreateBody("EXIT", "STUDENT", "", "s1", NULL, NULL, <<"bags">>),
      CreateBody("EXIT", "STUDENT", "g1", "s2", "gu1", "v1", NoRemarks),
      CreateBody("ENTRY", "GUEST", "g1", "s1", "gu1", "v1", NoRemarks),
      CreateBody("ENTRY", "VENDOR", "g1", "s1", "gu1", "v1", NoRemarks),
      CreateBody("ENTRY", "GUEST", NULL, NULL, "gu1", NULL, NoRemarks),
      CreateBody("EXIT", "VENDOR", "", NULL, NULL, "v1", NoRemarks),
      CreateBody("ENTRY", "STUDENT", NULL, NULL, "gu1", "v1", NoRemarks),
      CreateBody("ENTRY", "GUEST", "g1", "s1", NULL, "v1", NoRemarks),
      CreateBody("ENTRY", "VENDOR", "g1", "s1", "gu1", NULL, NoRemarks),
      CreateBody("ENTRY", "STUDENT", NULL, Unknown, NULL, NULL, NoRemarks),
      CreateBody("ENTRY", "STUDENT", Unknown, "s1", NULL, NULL, NoRemarks),
      CreateBody("ENTRY", "GUEST", "g1", NULL, Unknown, NULL, NoRemarks),
      CreateBody("ENTRY", "VENDOR", "g1", NULL, NULL, Unknown, NoRemarks),
      CreateBody(NULL, "STUDENT", NULL, "s1", NULL, NULL, NoRemarks),
      CreateBody("ENTRY", NULL, NULL, "s1", NULL, NULL, NoRemarks),
      CreateBody("BAD", "STUDENT", NULL, "s1", NULL, NULL, NoRemarks),
      CreateBody("ENTRY", "BAD", "g1", "s1", NULL, NULL, NoRemarks) }

\* an insert that takes the place of the newest row
createMovementLogOverNewest(b) ==
    /\ UNCHANGED <<guestVars, clientVars>>
    /\ UNCHANGED call
    /\ IF CreateValidation(b) # ""
       THEN /\ last' = 400
            /\ UNCHANGED <<movement_logs, now>>
       ELSE \E t \in Instants :
              IF movement_logs_constraints(LogData(b, t))
              THEN /\ Len(movement_logs) < MaxLogs
                   /\ movement_logs' =
                        IF movement_logs = <<>> THEN <<LogData(b, t)>>
                        ELSE [movement_logs EXCEPT ![Len(movement_logs)] = LogData(b, t)]
                   /\ now' = t
                   /\ last' = 201
              ELSE /\ last' = 400
                   /\ UNCHANGED <<movement_logs, now>>

createMovementLog(b) ==
    /\ UNCHANGED <<guestVars, clientVars>>
    /\ UNCHANGED call
    /\ IF CreateValidation(b) # ""
       THEN /\ last' = 400
            /\ UNCHANGED <<movement_logs, now>>
       ELSE \E t \in Instants :
              IF movement_logs_constraints(LogData(b, t))
              THEN /\ Len(movement_logs) < MaxLogs
                   /\ movement_logs' = Append(movement_logs, LogData(b, t))
                   /\ now' = t
                   /\ last' = 201
              ELSE /\ last' = 400
                   /\ UNCHANGED <<movement_logs, now>>

\* ---------------------------------------------- recordVendorMovement
\* remarks || '' joined with the vehicle number
FinalRemarks(remarks, vehicleNumber) ==
    IF Truthy(vehicleNumber)
    THEN IF remarks # NoRemarks
         THEN remarks \o <<" | Vehicle: ", vehicleNumber>>
         ELSE <<"Vehicle: ", vehicleNumber>>
    ELSE remarks

\* the row recordVendorMovement inserts; the columns it leaves out take
\* their defaults (timestamp now(), the other entity ids NULL)
VendorLogData(b, t) ==
    [ timestamp     |-> t,
      movement_type |-> b.actionType,
      entity_type   |-> "VENDOR",
      gate_user_id  |-> b.gateUserId,
      status        |-> "COMPLETED",
      remarks       |-> FinalRemarks(b.remarks, b.vehicleNumber),
      student_id    |-> NULL,
      guest_id      |-> NULL,
      vendor_id     |-> b.vendorId ]

VendorValidation(b) ==
    IF ~Truthy(b.vendorId) \/ ~Truthy(b.actionType) \/ ~Truthy(b.gateUserId)
    THEN "Missing required fields"
    ELSE IF b.actionType \notin {"ENTRY", "EXIT"} THEN "Invalid actionType"
    ELSE ""

VendorBody(vendorId, actionType, gateUserId, vehicleNumber, remarks) ==
    [ vendorId |-> vendorId, actionType |-> actionType, gateUserId |-> gateUserId,
      vehicleNumber |-> vehicleNumber, remarks |-> remarks ]

VendorBodies ==
    { VendorBody("v1", "ENTRY", "g1", NULL, NoRemarks),
      VendorBody(NULL, "ENTRY", "g1", NULL, NoRemarks),
      VendorBody("v1", NULL, "g1", NULL, NoRemarks),
      VendorBody("v1", "ENTRY", "", NULL, NoRemarks),
      VendorBody("v1", "BAD", "g1", NULL, NoRemarks),
      VendorBody(Unknown, "EXIT", "g1", "UP32", <<"bags">>),
      VendorBody("v1", "ENTRY", Unknown, "UP32", NoRemarks) }

recordVendorMovement(b) ==
    /\ UNCHANGED <<guestVars, clientVars>>
    /\ UNCHANGED call
    /\ IF VendorValidation(b) # ""
       THEN /\ last' = 400
            /\ UNCHANGED <<movement_logs, now>>
       ELSE \E t \in Instants :
              IF movement_logs_constraints(VendorLogData(b, t))
              THEN /\ Len(movement_logs) < MaxLogs
                   /\ movement_logs' = Append(movement_logs, VendorLogData(b, t))
                   /\ now' = t
                   /\ last' = 200
              ELSE /\ last' = 400
                   /\ UNCHANGED <<movement_logs, now>>

\* -------------------------------------- updateStudentMovementRequest
\* A call is two round trips to the store: it reads the row, then updates
\* it; other calls may run in between.  call[o] is officer o's call between
\* the two: Idle, or the request whose read found the row PENDING.
Idle == [pc |-> "idle", id |-> 0, status |-> NULL, gateUserId |-> NULL,
         rejectionReason |-> NULL]

\* the validation without the check of the status enumeration
UpdateValidationAnyStatus(b) ==
    IF ~Truthy(b.status) THEN "status is required"
    ELSE IF ~Truthy(b.gateUserId) THEN "gateUserId is required"
    ELSE ""

\* the validation without the check that an officer is named
UpdateValidationNoOfficerCheck(b) ==
    IF ~Truthy(b.status) THEN "status is required"
    ELSE IF b.status \notin {"COMPLETED", "REJECTED"} THEN "Invalid status"
    ELSE ""

UpdateValidation(b) ==
    IF ~Truthy(b.status) THEN "status is required"
    ELSE IF b.status \notin {"COMPLETED", "REJECTED"} THEN "Invalid status"
    ELSE IF ~Truthy(b.gateUserId) THEN "gateUserId is required"
    ELSE ""

UpdateBodies(o) ==
    [ status          : {"COMPLETED"},
      gateUserId      : {o},
      rejectionReason : {NULL} ]
    \cup
    [ status          : {"REJECTED"},
      gateUserId      : {o},
      rejectionReason : {"no id card"} ]
    \cup
    [ status          : {NULL, "COMPLETED"},
      gateUserId      : {NULL},
      rejectionReason : {NULL} ]
    \cup
    [ status          : {"PENDING"},
      gateUserId      : {o},
      rejectionReason : {NULL} ]

\* .eq('id', id).eq('entity_type', 'STUDENT').single()
ExistingRequest(id) ==
    IF id \in Ids /\ movement_logs[id].entity_type = "STUDENT"
    THEN {movement_logs[id]} ELSE {}

\* the check left out: every row read passes for PENDING
NotPendingUnchecked(r) == FALSE

\* existingRequest.status !== 'PENDING'
NotPending(r) == r.status # "PENDING"

\* validation, the read of the row and the check that it is PENDING
updateFetch(o, id, b) ==
    /\ UNCHANGED <<guestVars, clientVars>>
    /\ call[o].pc = "idle"
    /\ UNCHANGED <<movement_logs, now>>
    /\ IF UpdateValidation(b) # ""
       THEN /\ last' = 400
            /\ UNCHANGED call
       ELSE IF ExistingRequest(id) = {}
       THEN /\ last' = 404
            /\ UNCHANGED call
       ELSE IF \E r \in ExistingRequest(id) : NotPending(r)
       THEN /\ last' = 400
            /\ UNCHANGED call
       ELSE /\ call' = [call EXCEPT ![o] =
                          [pc |-> "update", id |-> id, status |-> b.status,
                           gateUserId |-> b.gateUserId,
                           rejectionReason |-> b.rejectionReason]]
            /\ UNCHANGED last

\* an update that leaves the officer out
UpdatePayloadWithoutOfficer(row, c, t) ==
    [row EXCEPT
       !.status = c.status,
       !.timestamp = t,
       !.remarks = IF c.status = "REJECTED" /\ Truthy(c.rejectionReason)
                   THEN <<"Request rejected by gate staff: ", c.rejectionReason>>
                   ELSE @]

\* an update that leaves the row's timestamp as the insert set it
UpdatePayloadKeepingTimestamp(row, c, t) ==
    [row EXCEPT
       !.status = c.status,
       !.gate_user_id = c.gateUserId,
       !.remarks = IF c.status = "REJECTED" /\ Truthy(c.rejectionReason)
                   THEN <<"Request rejected by gate staff: ", c.rejectionReason>>
                   ELSE @]

\* the row after .update(updatePayload).eq('id', id)
UpdatePayload(row, c, t) ==
    [row EXCEPT
       !.status = c.status,
       !.gate_user_id = c.gateUserId,
       !.timestamp = t,
       !.remarks = IF c.status = "REJECTED" /\ Truthy(c.rejectionReason)
                   THEN <<"Request rejected by gate staff: ", c.rejectionReason>>
                   ELSE @]

\* the update of the row and the response
updateWrite(o) ==
    /\ UNCHANGED <<guestVars, clientVars>>
    /\ call[o].pc = "update"
    /\ call' = [call EXCEPT ![o] = Idle]
    /\ \E t \in Instants :
         LET id == call[o].id
             row == UpdatePayload(movement_logs[id], call[o], t)
         IN IF movement_logs_constraints(row)
            THEN /\ movement_logs' = [movement_logs EXCEPT ![id] = row]
                 /\ now' = t
                 /\ last' = 200
            ELSE /\ last' = 400
                 /\ UNCHANGED <<movement_logs, now>>

\* -------------------------------------------------- getStudentStatus
Max(S) == CHOOSE x \in S : \A y \in S : y <= x

\* the query without .eq('status', 'COMPLETED')
AnyStatusOf(s) ==
    {i \in Ids : /\ movement_logs[i].student_id = s
                 /\ movement_logs[i].entity_type = "STUDENT"}

\* .eq('student_id', s).eq('entity_type', 'STUDENT').eq('status', 'COMPLETED')
CompletedOf(s) ==
    {i \in Ids : /\ movement_logs[i].student_id = s
                 /\ movement_logs[i].entity_type = "STUDENT"
                 /\ movement_logs[i].status = "COMPLETED"}

\* the query ordered ascending: the row with the earliest timestamp
OldestLog(s) ==
    {i \in CompletedOf(s) :
        \A j \in CompletedOf(s) : movement_logs[i].timestamp <= movement_logs[j].timestamp}

\* .order('timestamp', {ascending: false}).limit(1): a row with the latest
\* timestamp; which one, when several share it, is the store's choice
LatestLog(s) ==
    {i \in CompletedOf(s) :
        movement_logs[i].timestamp = Max({movement_logs[j].timestamp : j \in CompletedOf(s)})}

\* a student without a completed movement reported outside
getStudentStatusOutsideByDefault(s) ==
    IF CompletedOf(s) = {}
    THEN {[isInside |-> FALSE, lastMovementTime |-> NoTime, lastMovementType |-> NULL]}
    ELSE {[isInside |-> movement_logs[i].movement_type = "ENTRY",
           lastMovementTime |-> movement_logs[i].timestamp,
           lastMovementType |-> movement_logs[i].movement_type] : i \in LatestLog(s)}

\* the responses getStudentStatus may give for student s
getStudentStatus(s) ==
    IF CompletedOf(s) = {}
    THEN {[isInside |-> TRUE, lastMovementTime |-> NoTime, lastMovementType |-> NULL]}
    ELSE {[isInside |-> movement_logs[i].movement_type = "ENTRY",
           lastMovementTime |-> movement_logs[i].timestamp,
           lastMovementType |-> movement_logs[i].movement_type] : i \in LatestLog(s)}

\* ------------------------------------------- getAllStudentsOccupancy
\* The view v_campus_occupancy is read by the handler and defined nowhere
\* in the repository's files; it is taken here as the occupancy view of the
\* design: one row per known student, from the student's COMPLETED movement
\* with the maximum timestamp, inside by default when there is none.
v_campus_occupancy ==
    {LET done == {i \in Ids : /\ movement_logs[i].student_id = s
                              /\ movement_logs[i].status = "COMPLETED"}
         latest == CHOOSE i \in done :
                      \A j \in done : movement_logs[j].timestamp <= movement_logs[i].timestamp
     IN IF done = {}
        THEN [student_id |-> s, is_inside |-> TRUE,
              last_movement_time |-> NoTime, last_movement_type |-> NULL]
        ELSE [student_id |-> s,
              is_inside |-> movement_logs[latest].movement_type = "ENTRY",
              last_movement_time |-> movement_logs[latest].timestamp,
              last_movement_type |-> movement_logs[latest].movement_type]
     : s \in Students}

\* req.query.studentIds: the comma-separated list as the sequence of its
\* ids, <<>> for a query without the parameter (or with '')
OccupancyQueries ==
    {<<>>, <<"s1">>, <<"s2", "s1">>, <<"s2", Unknown>>}

\* a map whose isInside is worked out from the type of the last movement
getAllStudentsOccupancyFromType(studentIds) ==
    LET data == IF studentIds # <<>>
                THEN {r \in v_campus_occupancy :
                        \E k \in 1..Len(studentIds) : r.student_id = studentIds[k]}
                ELSE v_campus_occupancy
    IN [s \in {r.student_id : r \in data} |->
          LET record == CHOOSE r \in data : r.student_id = s
          IN [isInside |-> record.last_movement_type = "ENTRY",
              lastMovementTime |-> record.last_movement_time,
              lastMovementType |-> record.last_movement_type]]

\* occupancyMap: the rows of the view, those of the listed students when
\* the query lists any, keyed by student_id
getAllStudentsOccupancy(studentIds) ==
    LET data == IF studentIds # <<>>
                THEN {r \in v_campus_occupancy :
                        \E k \in 1..Len(studentIds) : r.student_id = studentIds[k]}
                ELSE v_campus_occupancy
    IN [s \in {r.student_id : r \in data} |->
          LET record == CHOOSE r \in data : r.student_id = s
          IN [isInside |-> record.is_inside,
              lastMovementTime |-> record.last_movement_time,
              lastMovementType |-> record.last_movement_type]]

\* --------------------------------------------------- getMovementLogs
Query(studentId, entityType, movementType, status, limit) ==
    [ studentId |-> studentId, entityType |-> entityType,
      movementType |-> movementType, status |-> status, limit |-> limit ]

\* req.query: the ledger's query without filters, the pending queue's
\* (getStudentMovementRequests), and queries naming a student, an entity
\* type, a movement type, a status or a limit
Queries ==
    { Query(NULL, NULL, NULL, NULL, 100),
      Query(NULL, NULL, NULL, "", 100),
      Query(NULL, NULL, NULL, NULL, 1),
      Query(NULL, "STUDENT", NULL, "PENDING", 100),
      Query("s1", "STUDENT", NULL, "PENDING", 100),
      Query("s1", NULL, NULL, NULL, 100),
      Query(NULL, NULL, NULL, "REJECTED", 100),
      Query(NULL, "GUEST", NULL, "COMPLETED", 100),
      Query(NULL, "VENDOR", "ENTRY", NULL, 100),
      Query("s2", "STUDENT", "EXIT", NULL, 100) }

\* a query without status matches rows of every status
MatchesStatusNoDefault(row, q) == Truthy(q.status) => row.status = q.status

\* if (status) query.eq('status', status) else query.eq('status', 'COMPLETED')
MatchesStatus(row, q) ==
    IF Truthy(q.status) THEN row.status = q.status ELSE row.status = "COMPLETED"

\* the other filters, each applied when the query names it
Matches(row, q) ==
    /\ MatchesStatus(row, q)
    /\ Truthy(q.studentId) => row.student_id = q.studentId
    /\ Truthy(q.entityType) => row.entity_type = q.entityType
    /\ Truthy(q.movementType) => row.movement_type = q.movementType

\* .order('timestamp', { ascending: false }): the ids of S, newest first
RECURSIVE NewestFirst(_)
NewestFirst(S) ==
    IF S = {} THEN <<>>
    ELSE LET newest == CHOOSE i \in S : \A j \in S :
                           movement_logs[i].timestamp >= movement_logs[j].timestamp
         IN <<newest>> \o NewestFirst(S \ {newest})

\* the ids of the rows getMovementLogs returns, in the order of the response
getMovementLogs(q) ==
    LET found == NewestFirst({i \in Ids : Matches(movement_logs[i], q)})
    IN IF Len(found) <= q.limit THEN found ELSE SubSeq(found, 1, q.limit)

\* ------------------------------------------------ the guest tables
\* CHECK (status IN ('PENDING', 'APPROVED', 'REJECTED', 'EXPIRED', 'COMPLETED'))
guest_requests_status_check == {"PENDING", "APPROVED", "REJECTED", "EXPIRED", "COMPLETED"}

\* what the store accepts as a row of guest_requests (of its columns the
\* model keeps the student and the approval workflow)
guest_requests_constraints(row) ==
    /\ row.student_id \in users
    /\ row.status \in guest_requests_status_check
    /\ row.approved_by = NULL \/ row.approved_by \in users

\* a row createGuestRequest deleted again; its id is never given out anew
Deleted == [student_id |-> NULL, status |-> "DELETED", approved_by |-> NULL,
            rejection_reason |-> NULL]

RequestIds == {i \in 1..Len(guest_requests) : guest_requests[i] # Deleted}
GuestIds == 1..Len(guest_rows)

\* name and relation are NOT NULL, request_id references guest_requests
guests_constraints(row) ==
    /\ row.request_id \in RequestIds
    /\ row.name # NULL
    /\ row.relation # NULL

\* a guests table without the unique constraint on entry_code
guests_entry_code_not_unique(g, c) == TRUE

\* constraint guests_entry_code_key unique (entry_code): may guest g take
\* code c, no other row holding it
guests_entry_code_key(g, c) ==
    \A h \in GuestIds : h # g => guest_rows[h].entry_code # c

\* movement_logs_guest_fkey: the row of public.guests a movement's guest_id
\* names; the guest of the directory is the first guest stored
GuestRowOf == [guestId \in guests |-> 1]

\* the guests of request id, in the order of their ids
GuestsOf(id) == {g \in GuestIds : guest_rows[g].request_id = id}

\* ------------------------------------------------ createGuestRequest
NotCreating == [pc |-> "idle", id |-> 0, guests |-> <<>>]

Guest(name, relation) == [name |-> name, relation |-> relation]

GuestRequestBody(studentId, purpose, guestList) ==
    [ studentId |-> studentId, purpose |-> purpose, arrivalDate |-> "2025-01-01",
      entryTimeStart |-> "10:00", exitTimeEnd |-> "18:00", guests |-> guestList ]

\* request bodies: two guests, a guest without a name, and the bodies the
\* validation or the store refuses; <<>> for guests is an empty array as
\* well as a body without an array of guests
GuestRequestBodies ==
    { GuestRequestBody("s1", "visit", <<Guest("A", "Father"), Guest("B", "Sister")>>),
      GuestRequestBody("s1", "visit", <<Guest(NULL, "Father")>>),
      GuestRequestBody("s1", NULL, <<Guest("A", "Father")>>),
      GuestRequestBody("s1", "visit", <<>>),
      GuestRequestBody(Unknown, "visit", <<Guest("A", "Father")>>) }

GuestRequestValidation(b) ==
    IF ~Truthy(b.studentId) \/ ~Truthy(b.purpose) \/ ~Truthy(b.arrivalDate)
       \/ ~Truthy(b.entryTimeStart) \/ ~Truthy(b.exitTimeEnd)
    THEN "Missing required fields"
    ELSE IF b.guests = <<>> THEN "At least one guest is required"
    ELSE ""

\* the row createGuestRequest inserts
GuestRequestData(b) ==
    [ student_id |-> b.studentId, status |-> "PENDING", approved_by |-> NULL,
      rejection_reason |-> NULL ]

\* an insert that stores the first guest of the list only
GuestsDataFirstOnly(id, guestList) ==
    [i \in 1..(IF guestList = <<>> THEN 0 ELSE 1) |->
        [ request_id |-> id, name |-> guestList[i].name,
          relation |-> guestList[i].relation, entry_code |-> NULL ]]

\* guestsData: the rows inserted for the guests of request id
GuestsData(id, guestList) ==
    [i \in 1..Len(guestList) |->
        [ request_id |-> id, name |-> guestList[i].name,
          relation |-> guestList[i].relation, entry_code |-> NULL ]]

\* validation and the insert of the request row
createGuestRequest(b) ==
    /\ creating.pc = "idle"
    /\ UNCHANGED <<movementVars, clientVars, guest_rows, approval, updates>>
    /\ IF GuestRequestValidation(b) # ""
       THEN /\ last' = 400
            /\ UNCHANGED <<guest_requests, creating>>
       ELSE IF guest_requests_constraints(GuestRequestData(b))
       THEN /\ Len(guest_requests) < MaxRequests
            /\ guest_requests' = Append(guest_requests, GuestRequestData(b))
            /\ creating' = [pc |-> "guests", id |-> Len(guest_requests) + 1,
                            guests |-> b.guests]
            /\ UNCHANGED last
       ELSE /\ last' = 400
            /\ UNCHANGED <<guest_requests, creating>>

\* the insert of the guests; the request row is deleted again when it fails
createGuests ==
    /\ creating.pc = "guests"
    /\ creating' = NotCreating
    /\ UNCHANGED <<movementVars, clientVars, approval, updates>>
    /\ LET guestsData == GuestsData(creating.id, creating.guests)
       IN IF \A i \in 1..Len(guestsData) : guests_constraints(guestsData[i])
          THEN /\ guest_rows' = guest_rows \o guestsData
               /\ last' = 201
               /\ UNCHANGED guest_requests
          ELSE /\ guest_requests' = [guest_requests EXCEPT ![creating.id] = Deleted]
               /\ last' = 400
               /\ UNCHANGED guest_rows

\* ------------------------------------------------ getGuestRequestById
\* the response: {} for 404, else the request with its guests; the store
\* returns the embedded guests in no stated order, so they are a set
getGuestRequestById(id) ==
    IF id \notin RequestIds THEN {}
    ELSE {[ status |-> guest_requests[id].status,
            guests |-> {[ id |-> g, name |-> guest_rows[g].name,
                          relation |-> guest_rows[g].relation,
                          entryCode |-> guest_rows[g].entry_code ] : g \in GuestsOf(id)} ]}

\* ------------------------------------------ updateGuestRequestStatus
\* A call is a sequence of round trips to the store: it updates the request,
\* and for APPROVED it reads the request's guests without a code, draws a
\* code for each, and writes the codes one guest after the other; other
\* calls may run in between.  approval[c] is council member c's call between
\* its round trips.  The read that builds the response is taken together
\* with the call's last round trip.
NotApproving == [pc |-> "idle", id |-> 0, codeUpdates |-> <<>>]

\* Math.floor(1000 + Math.random() * 9000).toString(): two of the 9000 codes
EntryCodes == {"1000", "1001"}

StatusBody(status, approvedBy, rejectionReason) ==
    [ status |-> status, approvedBy |-> approvedBy, rejectionReason |-> rejectionReason ]

\* what the council dashboard sends for approve and for reject, and the
\* bodies the validation refuses
StatusBodies(c) ==
    { StatusBody("APPROVED", c, NULL),
      StatusBody("REJECTED", c, "Rejected by council"),
      StatusBody(NULL, c, NULL),
      StatusBody("BAD", c, NULL),
      StatusBody("APPROVED", Unknown, NULL) }

\* the validation without the lookup of the approver in public.users
StatusValidationNoApproverCheck(b) ==
    IF ~Truthy(b.status) THEN "Status is required"
    ELSE IF b.status \notin {"PENDING", "APPROVED", "REJECTED", "EXPIRED", "COMPLETED"}
    THEN "Invalid status"
    ELSE ""

StatusValidation(b) ==
    IF ~Truthy(b.status) THEN "Status is required"
    ELSE IF b.status \notin {"PENDING", "APPROVED", "REJECTED", "EXPIRED", "COMPLETED"}
    THEN "Invalid status"
    ELSE IF Truthy(b.approvedBy) /\ b.approvedBy \notin users THEN "Invalid approver"
    ELSE ""

\* an update that leaves the rejection reason out
UpdateDataWithoutReason(row, b) ==
    [row EXCEPT
       !.status = b.status,
       !.approved_by = IF Truthy(b.approvedBy) THEN b.approvedBy ELSE @]

\* the row after .update(updateData).eq('id', id)
UpdateData(row, b) ==
    [row EXCEPT
       !.status = b.status,
       !.approved_by = IF Truthy(b.approvedBy) THEN b.approvedBy ELSE @,
       !.rejection_reason = IF Truthy(b.rejectionReason) THEN b.rejectionReason ELSE @]

\* the status of the response after the final read of request id
Fetched(id) == IF id \in RequestIds THEN 200 ELSE 400

\* validation, the check of the approver and the update of the request
updateGuestRequestStatus(c, id, b) ==
    /\ approval[c].pc = "idle"
    /\ UNCHANGED <<movementVars, clientVars, guest_rows, creating>>
    /\ IF StatusValidation(b) # "" \/ id \notin RequestIds
       THEN /\ last' = 400
            /\ UNCHANGED <<guest_requests, approval, updates>>
       ELSE IF ~guest_requests_constraints(UpdateData(guest_requests[id], b))
       THEN /\ last' = 400
            /\ UNCHANGED <<guest_requests, approval, updates>>
       ELSE /\ updates < MaxUpdates
            /\ updates' = updates + 1
            /\ guest_requests' = [guest_requests EXCEPT ![id] = UpdateData(@, b)]
            /\ IF b.status = "APPROVED"
               THEN /\ approval' = [approval EXCEPT ![c] =
                                      [pc |-> "select", id |-> id, codeUpdates |-> <<>>]]
                    /\ UNCHANGED last
               ELSE /\ last' = 200
                    /\ UNCHANGED approval

\* the members of a set of ids in ascending order
Ascending(S) ==
    CHOOSE q \in [1..Cardinality(S) -> S] : \A i, j \in 1..Cardinality(S) : i < j => q[i] < q[j]

\* .eq('request_id', id).is('entry_code', null)
GuestsWithoutCode(id) == {g \in GuestsOf(id) : guest_rows[g].entry_code = NULL}

\* the read of the guests without a code, and a code drawn for each
selectGuests(c) ==
    /\ approval[c].pc = "select"
    /\ UNCHANGED <<movementVars, clientVars, guest_requests, guest_rows, creating, updates>>
    /\ LET id == approval[c].id
           found == Ascending(GuestsWithoutCode(id))
       IN IF found = <<>>
          THEN /\ approval' = [approval EXCEPT ![c] = NotApproving]
               /\ last' = Fetched(id)
          ELSE /\ \E entryCode \in [1..Len(found) -> EntryCodes] :
                     approval' = [approval EXCEPT ![c] =
                        [pc |-> "codes", id |-> id,
                         codeUpdates |-> [i \in 1..Len(found) |->
                              [id |-> found[i], entry_code |-> entryCode[i]]]]]
               /\ UNCHANGED last

\* a loop that stops at the first write the store refuses
RemainingNoneAfterError(codeUpdates, updateError) ==
    IF updateError THEN <<>> ELSE Tail(codeUpdates)

\* for (const update of codeUpdates): what is left of the loop after the
\* write of its first update; a write the store refuses is logged and the
\* loop goes on
Remaining(codeUpdates, updateError) == Tail(codeUpdates)

\* .update({ entry_code }).eq('id', update.id) for the next guest of the loop
updateEntryCode(c) ==
    /\ approval[c].pc = "codes"
    /\ UNCHANGED <<movementVars, clientVars, guest_requests, creating, updates>>
    /\ LET update == Head(approval[c].codeUpdates)
           rest == Remaining(approval[c].codeUpdates,
                             ~guests_entry_code_key(update.id, update.entry_code))
       IN /\ IF guests_entry_code_key(update.id, update.entry_code)
             THEN guest_rows' = [guest_rows EXCEPT ![update.id].entry_code = update.entry_code]
             ELSE UNCHANGED guest_rows
          /\ IF rest = <<>>
             THEN /\ approval' = [approval EXCEPT ![c] = NotApproving]
                  /\ last' = Fetched(approval[c].id)
             ELSE /\ approval' = [approval EXCEPT ![c].codeUpdates = rest]
                  /\ UNCHANGED last

\* ------------------------------------------------ validateGuestCode
Min(S) == CHOOSE x \in S : \A y \in S : x <= y

\* the lookup among all requests, whatever their status
allRequests == RequestIds

\* guestRequests.filter(r => r.status === RequestStatus.APPROVED), on the
\* list getGuestRequests returns: every request with its guests
approvedRequests == {id \in RequestIds : guest_requests[id].status = "APPROVED"}

\* the gate's lookup of a code: the first approved request, newest first,
\* with a guest holding the code, and its first such guest; {} when the
\* code is blank or nothing is found
validateGuestCode(guestCode) ==
    LET holds(req) == {g \in GuestsOf(req) : guest_rows[g].entry_code = guestCode}
        hits == {req \in approvedRequests : holds(req) # {}}
    IN IF guestCode = "" \/ hits = {}
       THEN {}
       ELSE {[request |-> Max(hits), guest |-> Min(holds(Max(hits)))]}

\* ----------------------------------------------------------- loadData
\* the rows with the ids of a response, in its order
Rows(ids) == [k \in 1..Len(ids) |-> movement_logs[ids[k]]]

\* getGuestRequests: every stored request
getGuestRequests == {[id |-> id, status |-> guest_requests[id].status] : id \in RequestIds}

\* what the requests of loadData are answered from the store as it is:
\* the COMPLETED and the PENDING movements, and the visit requests (the
\* vendors and the students' requests are fetched and set with them)
Loaded ==
    [ logs |-> Rows(getMovementLogs(Query(NULL, NULL, NULL, "COMPLETED", 1000))
                    \o getMovementLogs(Query(NULL, NULL, NULL, "PENDING", 100))),
      guestRequests |-> getGuestRequests ]

\* a dashboard that has loaded nothing
NoData == [logs |-> <<>>, guestRequests |-> {}]

\* loadData(): the requests are sent and served; their responses are on the
\* way.  Calls in flight with the same responses are one element of loads.
loadData ==
    /\ loads' = loads \cup {Loaded}
    /\ latestLoad' = Loaded

\* the responses of a call arrive: setLogs, setGuestRequests, ...
setLogs ==
    /\ \E r \in loads :
          /\ logs' = r.logs
          /\ guestRequests' = r.guestRequests
          /\ loads' = loads \ {r}
    /\ UNCHANGED <<user, realtimeDebounceRef, elapsed, unserved, notified, refreshes, latestLoad>>
    /\ UNCHANGED <<movementVars, guestVars, last>>

\* refreshData={loadData}: a dashboard reloads after an operation of its own
refreshData ==
    /\ user # NULL
    /\ loadData
    /\ UNCHANGED <<user, realtimeDebounceRef, elapsed, unserved, notified, refreshes,
                   logs, guestRequests>>
    /\ UNCHANGED <<movementVars, guestVars, last>>

\* ------------------------------------------------------ triggerReload
\* The dashboard (App) subscribes to the changes of movement_logs and
\* guest_requests while a user is logged in.  A notification clears the
\* pending timeout and sets one of Debounce ms; the timeout runs loadData.
\* Time passes in steps of Step ms; a timeout that is due runs before more
\* time passes and before a notification of the same instant is handled.
Debounce == 300
Step == Debounce \div WindowSteps
NoTimer == 0 - 1    \* realtimeDebounceRef.current: null, or a timeout that has run

Tables == {"movement_logs", "guest_requests"}

\* a notification that leaves a pending timeout as it is
triggerReloadKeepingTimeout(ref) == IF ref # NoTimer THEN ref ELSE Debounce

\* clearTimeout(realtimeDebounceRef.current); window.setTimeout(..., 300)
triggerReload(ref) == Debounce

ClientInit ==
    /\ user = NULL
    /\ realtimeDebounceRef = NoTimer
    /\ elapsed = 0
    /\ unserved = 0
    /\ notified = 0
    /\ refreshes = 0
    /\ loads = {}
    /\ latestLoad = NoData
    /\ logs = <<>>
    /\ guestRequests = {}

\* setUser(appUser): the effects of [user?.id] run, loadData and subscribe
login(u) ==
    /\ user = NULL
    /\ user' = u
    /\ loadData
    /\ UNCHANGED <<realtimeDebounceRef, elapsed, unserved, notified, refreshes,
                   logs, guestRequests>>
    /\ UNCHANGED <<movementVars, guestVars, last>>

\* a cleanup that removes the channel and leaves the pending timeout
logoutKeepingTimeout ==
    /\ user # NULL
    /\ user' = NULL
    /\ logs' = <<>>
    /\ guestRequests' = {}
    /\ UNCHANGED <<realtimeDebounceRef, elapsed, unserved, notified, refreshes,
                   loads, latestLoad>>
    /\ UNCHANGED <<movementVars, guestVars, last>>

\* setUser(null): the effect's cleanup clears the timeout and removes the
\* channel, and the data shown is cleared
logout ==
    /\ user # NULL
    /\ user' = NULL
    /\ realtimeDebounceRef' = NoTimer
    /\ elapsed' = 0
    /\ unserved' = 0
    /\ logs' = <<>>
    /\ guestRequests' = {}
    /\ UNCHANGED <<notified, refreshes, loads, latestLoad>>
    /\ UNCHANGED <<movementVars, guestVars, last>>

\* .on('postgres_changes', { event: '*', schema: 'public', table }, ...)
postgres_changes(table) ==
    /\ user # NULL
    /\ notified < MaxNotifications
    /\ realtimeDebounceRef # 0
    /\ realtimeDebounceRef' = triggerReload(realtimeDebounceRef)
    /\ elapsed' = 0
    /\ unserved' = unserved + 1
    /\ notified' = notified + 1
    /\ UNCHANGED <<user, refreshes, loads, latestLoad, logs, guestRequests>>
    /\ UNCHANGED <<movementVars, guestVars, last>>

\* the timeout's callback: loadData()
timeout ==
    /\ realtimeDebounceRef = 0
    /\ realtimeDebounceRef' = NoTimer
    /\ refreshes' = refreshes + 1
    /\ unserved' = 0
    /\ loadData
    /\ UNCHANGED <<user, elapsed, notified, logs, guestRequests>>
    /\ UNCHANGED <<movementVars, guestVars, last>>

\* Step ms pass while a timeout is pending and not yet due
Tick ==
    /\ realtimeDebounceRef > 0
    /\ realtimeDebounceRef' = realtimeDebounceRef - Step
    /\ elapsed' = IF elapsed < Debounce THEN elapsed + Step ELSE elapsed
    /\ UNCHANGED <<user, unserved, notified, refreshes, loads, latestLoad, logs, guestRequests>>
    /\ UNCHANGED <<movementVars, guestVars, last>>

\* ---------------------------------------------------------------- spec
Init ==
    /\ movement_logs = <<>>
    /\ now = 0
    /\ call = [o \in Officers |-> Idle]
    /\ last = 0        \* no response yet
    /\ guest_requests = <<>>
    /\ guest_rows = <<>>
    /\ creating = NotCreating
    /\ approval = [c \in Council |-> NotApproving]
    /\ updates = 0
    /\ ClientInit

\* the movement ledger
Next ==
    \/ \E b \in CreateBodies : createMovementLog(b)
    \/ \E b \in VendorBodies : recordVendorMovement(b)
    \/ \E o \in Officers, id \in 1..MaxLogs :
          \E b \in UpdateBodies(o) : updateFetch(o, id, b)
    \/ \E o \in Officers : updateWrite(o)

Spec == Init /\ [][Next]_vars

\* the guest visit requests
GuestNext ==
    \/ \E b \in GuestRequestBodies : createGuestRequest(b)
    \/ createGuests
    \/ \E c \in Council, id \in 1..MaxRequests :
          \E b \in StatusBodies(c) : updateGuestRequestStatus(c, id, b)
    \/ \E c \in Council : selectGuests(c)
    \/ \E c \in Council : updateEntryCode(c)

GuestSpec == Init /\ [][GuestNext]_vars

\* the calls with a required field missing or a value outside its enumeration
MalformedCreateBodies ==
    {b \in CreateBodies :
        \/ b.movementType \notin {"ENTRY", "EXIT"}
        \/ b.entityType \notin {"STUDENT", "GUEST", "VENDOR"}
        \/ b.entityType # "STUDENT" /\ ~Truthy(b.gateUserId)
        \/ b.entityType = "STUDENT" /\ ~Truthy(b.studentId)
        \/ b.entityType = "GUEST" /\ ~Truthy(b.guestId)
        \/ b.entityType = "VENDOR" /\ ~Truthy(b.vendorId)}
MalformedVendorBodies ==
    {b \in VendorBodies :
        \/ ~Truthy(b.vendorId) \/ ~Truthy(b.gateUserId)
        \/ b.actionType \notin {"ENTRY", "EXIT"}}
MalformedUpdateBodies(o) ==
    {b \in UpdateBodies(o) :
        b.status \notin {"COMPLETED", "REJECTED"} \/ ~Truthy(b.gateUserId)}

\* the requests of student s1 for an entry or an exit
OwnRequestBodies ==
    {b \in CreateBodies :
        b.entityType = "STUDENT" /\ b.studentId = "s1" /\ ~Truthy(b.gateUserId)}

\* the calls of updateGuestRequestStatus whose status is missing or outside
\* the enumeration
MalformedStatusBodies(c) ==
    {b \in StatusBodies(c) : b.status \notin guest_requests_status_check}

\* the store after createGuestRequest has stored a visit request of s1 with
\* two guests
StoredRequestInit ==
    LET b == GuestRequestBody("s1", "visit", <<Guest("A", "Father"), Guest("B", "Sister")>>)
    IN /\ movement_logs = <<>>
       /\ now = 0
       /\ call = [o \in Officers |-> Idle]
       /\ last = 201
       /\ guest_requests = <<GuestRequestData(b)>>
       /\ guest_rows = GuestsData(1, b.guests)
       /\ creating = NotCreating
       /\ approval = [c \in Council |-> NotApproving]
       /\ updates = 0
       /\ ClientInit

\* the officer at the gate
OnDuty == {"g1"}

\* the malformed calls of the four handlers, on a ledger that holds requests
\* of s1, which the officer resolves, and movements of a vendor, next to a
\* stored visit request
RefusalNext ==
    \/ \E b \in OwnRequestBodies \cup MalformedCreateBodies : createMovementLog(b)
    \/ \E b \in VendorBodies : recordVendorMovement(b)
    \/ \E o \in OnDuty, id \in 1..MaxLogs :
          \E b \in UpdateBodies(o) : updateFetch(o, id, b)
    \/ \E o \in OnDuty : updateWrite(o)
    \/ \E c \in Council, id \in 1..MaxRequests :
          \E b \in MalformedStatusBodies(c) : updateGuestRequestStatus(c, id, b)

RefusalSpec == StoredRequestInit /\ [][RefusalNext]_vars

\* what the service's updateGuestRequestStatus may send: approvedBy and
\* rejectionReason are optional
ApprovalBodies(c) == StatusBodies(c) \cup {StatusBody("APPROVED", NULL, NULL)}

\* the gate logging a guest
GuestLogBodies == {b \in CreateBodies : b.entityType = "GUEST"}

\* a stored visit request: the council's calls on it, and the gate logging
\* the movements of its first guest
VisitNext ==
    \/ \E c \in Council, id \in 1..MaxRequests :
          \E b \in ApprovalBodies(c) : updateGuestRequestStatus(c, id, b)
    \/ \E c \in Council : selectGuests(c)
    \/ \E c \in Council : updateEntryCode(c)
    \/ \E b \in GuestLogBodies : createMovementLog(b)

VisitSpec == StoredRequestInit /\ [][VisitNext]_vars

\* the gate officer's dashboard, loading and reloading while students send
\* requests
LoadNext ==
    \/ \E u \in OnDuty : login(u)
    \/ \E b \in OwnRequestBodies : createMovementLog(b)
    \/ refreshData
    \/ setLogs

LoadSpec == Init /\ [][LoadNext]_vars

\* the dashboard of a user; time passes and a timeout that is due runs
RealtimeNext ==
    \/ \E u \in users : login(u)
    \/ logout
    \/ \E table \in Tables : postgres_changes(table)
    \/ timeout
    \/ Tick
    \/ setLogs

RealtimeSpec ==
    Init /\ [][RealtimeNext]_vars /\ WF_vars(timeout) /\ WF_vars(Tick)

\* ------------------------------------------------------------ properties

\* the step appends a row to the ledger
Appends == Len(movement_logs') = Len(movement_logs) + 1
NewRow == movement_logs'[Len(movement_logs')]

\* the step is officer o's call writing the row it read
Writes(o) == call[o].pc = "update" /\ call'[o].pc = "idle"

\* C1: a row's status only ever changes from PENDING to COMPLETED or from
\* PENDING to REJECTED; a COMPLETED or REJECTED row keeps its status, and no
\* row is removed.
C1_StatusOnlyLeavesPending ==
    [][\A i \in Ids :
         /\ i <= Len(movement_logs')
         /\ movement_logs'[i].status # movement_logs[i].status
              => /\ movement_logs[i].status = "PENDING"
                 /\ movement_logs'[i].status \in {"COMPLETED", "REJECTED"}]_vars

\* a PENDING request has been resolved to COMPLETED by an officer's call
C1_Witness ==
    \E i \in Ids :
        /\ last = 200
        /\ movement_logs[i].student_id = "s1"
        /\ movement_logs[i].status = "COMPLETED"
        /\ movement_logs[i].gate_user_id \in Officers

\* C2: of two concurrent updateStudentMovementRequest calls on one PENDING
\* row at most one succeeds: a call writes the row, and answers 200, only
\* when the row is PENDING at the moment of the write.
C2_OneResolutionPerRow ==
    [][\A o \in Officers :
         Writes(o) /\ last' = 200
            => movement_logs[call[o].id].status = "PENDING"]_vars

\* C3: a student has at most one PENDING row per movement type.
PendingOf(s, type) ==
    {i \in Ids : /\ movement_logs[i].student_id = s
                 /\ movement_logs[i].movement_type = type
                 /\ movement_logs[i].status = "PENDING"}

C3_OnePendingPerType ==
    \A s \in Students, type \in {"ENTRY", "EXIT"} : Cardinality(PendingOf(s, type)) <= 1

\* C4: the row an accepted createMovementLog stores is PENDING exactly when
\* it is a STUDENT row without an officer, and COMPLETED otherwise (the row's
\* entity_type and gate_user_id are the request's entityType and gateUserId).
C4_CreatedStatus ==
    [][Appends /\ last' = 201
         => NewRow.status =
              IF NewRow.entity_type = "STUDENT" /\ NewRow.gate_user_id = NULL
              THEN "PENDING" ELSE "COMPLETED"]_vars

\* createMovementLog has stored a student's own request PENDING, and then a
\* movement an officer logged for a student COMPLETED
C4_Witness ==
    /\ last = 201
    /\ Len(movement_logs) = 2
    /\ movement_logs[1].entity_type = "STUDENT"
    /\ movement_logs[1].gate_user_id = NULL
    /\ movement_logs[1].status = "PENDING"
    /\ movement_logs[2].entity_type = "STUDENT"
    /\ movement_logs[2].gate_user_id = "g1"
    /\ movement_logs[2].status = "COMPLETED"

\* C5: what getStudentStatus reports for a student changes only with the
\* COMPLETED rows: a step that stores a PENDING row, or turns a PENDING row
\* REJECTED, leaves every student's isInside, lastMovementTime and
\* lastMovementType as they were.
StoresPending == Appends /\ NewRow.status = "PENDING"
Rejects ==
    \E i \in Ids : /\ movement_logs[i].status = "PENDING"
                   /\ movement_logs'[i].status = "REJECTED"

C5_StatusIgnoresPending ==
    [][StoresPending \/ Rejects
         => \A s \in Students : getStudentStatus(s)' = getStudentStatus(s)]_vars

\* ENTRY COMPLETED at t1, then EXIT PENDING at t2 > t1: getStudentStatus
\* answers isInside = true, lastMovementTime = t1
C5_Witness ==
    /\ Len(movement_logs) = 2
    /\ movement_logs[1].student_id = "s1" /\ movement_logs[2].student_id = "s1"
    /\ movement_logs[1].movement_type = "ENTRY" /\ movement_logs[1].status = "COMPLETED"
    /\ movement_logs[2].movement_type = "EXIT" /\ movement_logs[2].status = "PENDING"
    /\ movement_logs[2].timestamp > movement_logs[1].timestamp
    /\ last = 201
    /\ getStudentStatus("s1") = {[isInside |-> TRUE,
                                  lastMovementTime |-> movement_logs[1].timestamp,
                                  lastMovementType |-> "ENTRY"]}

\* the COMPLETED STUDENT rows of student s
CompletedRows(s) ==
    {i \in Ids : /\ movement_logs[i].student_id = s
                 /\ movement_logs[i].entity_type = "STUDENT"
                 /\ movement_logs[i].status = "COMPLETED"}

\* C6: for a student with a COMPLETED movement, getStudentStatus answers
\* with the type and timestamp of a COMPLETED row of the student that no
\* other COMPLETED row of the student is later than, and isInside says
\* whether that row is an ENTRY.
C6_LatestCompleted ==
    \A s \in Students :
        CompletedRows(s) # {}
            => \A r \in getStudentStatus(s) :
                 \E i \in CompletedRows(s) :
                    /\ \A j \in CompletedRows(s) :
                          movement_logs[j].timestamp <= movement_logs[i].timestamp
                    /\ r.lastMovementType = movement_logs[i].movement_type
                    /\ r.lastMovementTime = movement_logs[i].timestamp
                    /\ r.isInside = (movement_logs[i].movement_type = "ENTRY")

\* s1 left (EXIT COMPLETED) and came back later (ENTRY COMPLETED):
\* getStudentStatus answers with the ENTRY
C6_Witness ==
    /\ Len(movement_logs) = 2
    /\ movement_logs[1].student_id = "s1" /\ movement_logs[2].student_id = "s1"
    /\ movement_logs[1].movement_type = "EXIT" /\ movement_logs[1].status = "COMPLETED"
    /\ movement_logs[2].movement_type = "ENTRY" /\ movement_logs[2].status = "COMPLETED"
    /\ movement_logs[1].timestamp < movement_logs[2].timestamp
    /\ getStudentStatus("s1") = {[isInside |-> TRUE,
                                  lastMovementTime |-> movement_logs[2].timestamp,
                                  lastMovementType |-> "ENTRY"]}

\* C7: for a student without a COMPLETED movement (no row at all, or only
\* PENDING and REJECTED ones), getStudentStatus answers isInside = true,
\* lastMovementTime = null, lastMovementType = null.
C7_InsideByDefault ==
    \A s \in Students \cup {Unknown} :
        CompletedRows(s) = {}
            => getStudentStatus(s) = {[isInside |-> TRUE, lastMovementTime |-> NoTime,
                                       lastMovementType |-> NULL]}

\* s1's only row is a PENDING request and s2 has a COMPLETED EXIT:
\* getStudentStatus answers inside, without a last movement, for s1
C7_Witness ==
    /\ Len(movement_logs) = 2
    /\ movement_logs[1].student_id = "s2" /\ movement_logs[1].status = "COMPLETED"
    /\ movement_logs[2].student_id = "s1" /\ movement_logs[2].status = "PENDING"
    /\ getStudentStatus("s1") = {[isInside |-> TRUE, lastMovementTime |-> NoTime,
                                  lastMovementType |-> NULL]}
    /\ getStudentStatus("s2") = {[isInside |-> FALSE,
                                  lastMovementTime |-> movement_logs[1].timestamp,
                                  lastMovementType |-> "EXIT"]}

\* C8: an updateStudentMovementRequest call for a row that is not PENDING
\* goes no further than the read: a call goes on to its update only when the
\* row it read is PENDING, and a step that neither moves a call on nor
\* stores a row answers with an error and leaves the ledger as it was
\* (status, gate_user_id, timestamp and remarks of every row included).
C8_ResolvedRowRefused ==
    [][/\ \A o \in Officers :
            call[o].pc = "idle" /\ call'[o].pc = "update"
               => /\ call'[o].id \in Ids
                  /\ movement_logs[call'[o].id].status = "PENDING"
       /\ call' = call /\ ~Appends
            => /\ last' \in {400, 404}
               /\ movement_logs' = movement_logs]_vars

\* the only row is a student's request that an officer resolved to
\* COMPLETED, and the next request to resolve it was answered 400
C8_Witness ==
    /\ last = 400
    /\ Len(movement_logs) = 1
    /\ movement_logs[1].status = "COMPLETED"
    /\ movement_logs[1].student_id = "s1"
    /\ movement_logs[1].gate_user_id \in Officers
    /\ \A o \in Officers : call[o].pc = "idle"

\* C9: every GUEST and VENDOR row is COMPLETED and carries an officer in
\* every state, so only STUDENT rows are ever PENDING.
C9_OnlyStudentsPending ==
    \A i \in Ids :
        movement_logs[i].entity_type # "STUDENT"
            => /\ movement_logs[i].status = "COMPLETED"
               /\ movement_logs[i].gate_user_id # NULL

\* a GUEST row stored by createMovementLog and a VENDOR row stored by
\* recordVendorMovement
C9_Witness ==
    /\ last = 200
    /\ Len(movement_logs) = 2
    /\ movement_logs[1].entity_type = "GUEST"
    /\ movement_logs[2].entity_type = "VENDOR"
    /\ movement_logs[2].status = "COMPLETED"

\* C10: every row has exactly one of student_id, guest_id, vendor_id, the
\* one its entity_type names.
EntityIds(row) ==
    {k \in {"STUDENT", "GUEST", "VENDOR"} :
        CASE k = "STUDENT" -> row.student_id # NULL
          [] k = "GUEST" -> row.guest_id # NULL
          [] k = "VENDOR" -> row.vendor_id # NULL}

C10_OneEntityId ==
    \A i \in Ids : EntityIds(movement_logs[i]) = {movement_logs[i].entity_type}

\* createMovementLog has stored a GUEST row (the request carried a student
\* id and a vendor id next to the guest id) after a VENDOR row
C10_Witness ==
    /\ last = 201
    /\ Len(movement_logs) = 2
    /\ movement_logs[1].entity_type = "VENDOR"
    /\ movement_logs[2].entity_type = "GUEST"
    /\ movement_logs[2].guest_id = "gu1"

\* ------------------------------------- properties of the guest requests

\* the step is council member c's call writing (or failing to write) a code
WritesCode(c) == approval[c].pc = "codes" /\ approval'[c] # approval[c]

\* the code of that write is held by another guest: the store refuses it
Collides(c) ==
    ~guests_entry_code_key(Head(approval[c].codeUpdates).id,
                           Head(approval[c].codeUpdates).entry_code)

\* C11: no two guests hold the same entry code, whatever the interleaving
\* of the updateGuestRequestStatus calls.
C11_CodesUnique ==
    \A g, h \in GuestIds :
        g # h /\ guest_rows[g].entry_code # NULL
            => guest_rows[g].entry_code # guest_rows[h].entry_code

\* two approvals of different requests run at once, each between the writes
\* of its two codes, and a guest of each request holds a code already
C11_Witness ==
    /\ \A c \in Council : approval[c].pc = "codes" /\ Len(approval[c].codeUpdates) = 1
    /\ approval["c1"].id # approval["c2"].id
    /\ \A c \in Council :
          \E g \in GuestsOf(approval[c].id) : guest_rows[g].entry_code # NULL

\* C12: a guest's entry code, once set, never changes: no step of any
\* updateGuestRequestStatus call writes another code over it.
C12_CodeNeverChanges ==
    [][\A g \in GuestIds :
         guest_rows[g].entry_code # NULL
            => guest_rows'[g].entry_code = guest_rows[g].entry_code]_vars

\* the step ends council member c's call
Completes(c) == approval[c].pc # "idle" /\ approval'[c].pc = "idle"

\* C13: when updateGuestRequestStatus(APPROVED) completes on a request that
\* was PENDING (the call made the first update of any request's status),
\* every guest of the request has a code, and no two of them the same.
C13_AllGuestsCoded ==
    [][\A c \in Council :
         Completes(c) /\ updates = 1
            => \A g \in 1..Len(guest_rows') :
                 guest_rows'[g].request_id = approval[c].id
                    => /\ guest_rows'[g].entry_code # NULL
                       /\ \A h \in 1..Len(guest_rows') :
                             h # g /\ guest_rows'[h].request_id = approval[c].id
                                => guest_rows'[h].entry_code # guest_rows'[g].entry_code]_vars

\* C14: a request that is APPROVED or REJECTED keeps its status: no later
\* updateGuestRequestStatus call changes it.
C14_ResolvedIsTerminal ==
    [][\A id \in RequestIds :
         guest_requests[id].status \in {"APPROVED", "REJECTED"}
         /\ guest_requests'[id] # Deleted
            => guest_requests'[id].status = guest_requests[id].status]_vars

\* C15: a write of a code that the store refuses because another guest holds
\* the code is followed by another attempt for the same guest: the call
\* stays in its loop with that guest next.
C15_CollisionRetried ==
    [][\A c \in Council :
         (WritesCode(c) /\ Collides(c))
            => /\ approval'[c].pc = "codes"
               /\ Head(approval'[c].codeUpdates).id = Head(approval[c].codeUpdates).id]_vars

\* C16: a write of a code that the store refuses changes no request (the
\* status stays as the call set it) and no guest, and the call goes on with
\* the guests that are left; a write the store accepts sets the code.
C16_FailedWriteGoesOn ==
    [][\A c \in Council :
         WritesCode(c)
            => LET update == Head(approval[c].codeUpdates)
                   rest == Tail(approval[c].codeUpdates)
               IN /\ guest_requests' = guest_requests
                  /\ IF Collides(c)
                     THEN guest_rows' = guest_rows
                     ELSE guest_rows'[update.id].entry_code = update.entry_code
                  /\ IF rest = <<>>
                     THEN approval'[c] = NotApproving
                     ELSE approval'[c].pc = "codes" /\ approval'[c].codeUpdates = rest]_vars

\* request 2 was approved once: the write for its first guest was refused
\* (a guest of request 1 holds the code) and its second guest has a code
C16_Witness ==
    /\ updates = 2
    /\ \A c \in Council : approval[c].pc = "idle"
    /\ Len(guest_rows) = 4
    /\ Len(guest_requests) = 2
    /\ guest_requests[1].status = "APPROVED" /\ guest_requests[2].status = "APPROVED"
    /\ guest_rows[3].request_id = 2 /\ guest_rows[3].entry_code = NULL
    /\ guest_rows[4].request_id = 2 /\ guest_rows[4].entry_code # NULL
    /\ guest_rows[1].entry_code # NULL

InvalidApprover == StatusBody("APPROVED", Unknown, NULL)

C18_InvalidApproverRefused ==
    [][\/ /\ last' = 400
          /\ UNCHANGED guestVars
          /\ StatusValidation(InvalidApprover) = "Invalid approver"
       \/ ~\E c \in Council, id \in 1..MaxRequests :
              updateGuestRequestStatus(c, id, InvalidApprover)]_vars

\* a call was answered 400 while request 1 is PENDING, without approver,
\* and no other call has updated a request
C18_Witness ==
    /\ last = 400
    /\ updates = 0
    /\ creating.pc = "idle"
    /\ Len(guest_requests) = 1
    /\ guest_requests[1].status = "PENDING"
    /\ guest_requests[1].approved_by = NULL
    /\ GuestsOf(1) = {1, 2}

\* C19: validateGuestCode finds a code only with a guest of a request that
\* is APPROVED, and returns that guest with the guest's own request; a code
\* held by a guest of a request that is not APPROVED is not found.
GuestCodes == EntryCodes \cup {"", "9999"}

C20_DefaultCompletedOnly ==
    \A q \in Queries :
        LET found == getMovementLogs(q)
        IN \A k \in 1..Len(found) :
            LET row == movement_logs[found[k]]
            IN /\ ~Truthy(q.status) => row.status = "COMPLETED"
               /\ row.status # "COMPLETED" => q.status = row.status
               /\ Truthy(q.status) => row.status = q.status
               /\ Truthy(q.studentId) => row.student_id = q.studentId
               /\ Truthy(q.entityType) => row.entity_type = q.entityType
               /\ Truthy(q.movementType) => row.movement_type = q.movementType

\* s1's PENDING request next to a COMPLETED movement of s2: the query
\* without filters returns the movement only, the pending queue's query the
\* request only
C20_Witness ==
    /\ Len(movement_logs) = 2
    /\ movement_logs[1].status = "PENDING" /\ movement_logs[1].student_id = "s1"
    /\ movement_logs[2].status = "COMPLETED" /\ movement_logs[2].student_id = "s2"
    /\ getMovementLogs(Query(NULL, NULL, NULL, NULL, 100)) = <<2>>
    /\ getMovementLogs(Query(NULL, "STUDENT", NULL, "PENDING", 100)) = <<1>>

\* --------------------------------- properties of the ledger's writes

\* the calls whose student, guest or vendor id is in no table
UnknownEntityCreateBodies ==
    {b \in CreateBodies :
        \/ b.entityType = "STUDENT" /\ b.studentId = Unknown
        \/ b.entityType = "GUEST" /\ b.guestId = Unknown
        \/ b.entityType = "VENDOR" /\ b.vendorId = Unknown}
UnknownEntityVendorBodies == {b \in VendorBodies : b.vendorId = Unknown}

\* the entity a row refers to is a row of the table its foreign key names
KnownEntity(row) ==
    CASE row.entity_type = "STUDENT" -> row.student_id \in users
      [] row.entity_type = "GUEST" -> row.guest_id \in guests
      [] row.entity_type = "VENDOR" -> row.vendor_id \in vendors

\* C21: a createMovementLog or recordVendorMovement call whose student,
\* guest or vendor id is in no table is answered with an error and leaves
\* the ledger as it was, and the entity of every stored row is known.
C21_UnknownEntityRefused ==
    [][/\ \/ last' = 400 /\ UNCHANGED movement_logs
          \/ ~ \/ \E b \in UnknownEntityCreateBodies : createMovementLog(b)
               \/ \E b \in UnknownEntityVendorBodies : recordVendorMovement(b)
       /\ \A i \in 1..Len(movement_logs') : KnownEntity(movement_logs'[i])]_vars

\* a call was answered 400 when the ledger held a vendor's and a guest's
\* movement and no call of an officer was in flight
C21_Witness ==
    /\ last = 400
    /\ Len(movement_logs) = 2
    /\ movement_logs[1].vendor_id = "v1"
    /\ movement_logs[2].guest_id = "gu1"
    /\ \A o \in Officers : call[o].pc = "idle"

\* C22: a createMovementLog, recordVendorMovement,
\* updateStudentMovementRequest or updateGuestRequestStatus call with a
\* required field missing or a value outside its enumeration is answered
\* 400 and changes nothing: the ledger, the visit requests, the guests and
\* the calls in flight are as they were.
C22_MalformedCallWritesNothing ==
    [][\/ /\ last' = 400
          /\ UNCHANGED <<movement_logs, call, guest_requests, guest_rows, approval>>
       \/ ~ \/ \E b \in MalformedCreateBodies : createMovementLog(b)
            \/ \E b \in MalformedVendorBodies : recordVendorMovement(b)
            \/ \E o \in OnDuty, id \in 1..MaxLogs :
                  \E b \in MalformedUpdateBodies(o) : updateFetch(o, id, b)
            \/ \E c \in Council, id \in 1..MaxRequests :
                  \E b \in MalformedStatusBodies(c) :
                      updateGuestRequestStatus(c, id, b)]_vars

\* a call was answered 400 while the ledger holds one PENDING request of a
\* student and the store a PENDING visit request with its two guests
C22_Witness ==
    /\ last = 400
    /\ Len(movement_logs) = 1
    /\ movement_logs[1].status = "PENDING"
    /\ movement_logs[1].gate_user_id = NULL
    /\ \A o \in Officers : call[o].pc = "idle"
    /\ Len(guest_requests) = 1
    /\ guest_requests[1].status = "PENDING"
    /\ GuestsOf(1) = {1, 2}

\* ------------------------------- properties of createGuestRequest

\* every guest of the list has a name and a relation
GuestsNamed(guestList) ==
    \A i \in 1..Len(guestList) :
        Truthy(guestList[i].name) /\ Truthy(guestList[i].relation)

\* C23: no row of guest_requests is in the store, at any moment, for a
\* request with a guest without a name or a relation: while a call's
\* request row is stored, every guest of the call is named.
C23_RefusedRequestNeverStored ==
    creating.pc = "guests" /\ creating.id \in RequestIds
        => GuestsNamed(creating.guests)

\* the step is the call's insert of the request row
InsertsRequest == creating.pc = "idle" /\ creating'.pc = "guests"

\* the step is the call's insert of the guests, answered 201
InsertsGuests == creating.pc = "guests" /\ creating'.pc = "idle" /\ last' = 201

\* C24: a successful createGuestRequest stores the request PENDING and the
\* guests of the list, no more and no fewer, each under the request and
\* without a code; getGuestRequestById then answers with as many guests as
\* were submitted, all of them without a code.
C24_CreatedPendingWithoutCodes ==
    [][/\ InsertsRequest
            => /\ guest_requests' = Append(guest_requests, guest_requests'[creating'.id])
               /\ guest_requests'[creating'.id].status = "PENDING"
               /\ guest_rows' = guest_rows
       /\ InsertsGuests
            => /\ guest_requests' = guest_requests
               /\ Len(guest_rows') = Len(guest_rows) + Len(creating.guests)
               /\ \A i \in 1..Len(creating.guests) :
                     LET row == guest_rows'[Len(guest_rows) + i]
                     IN /\ row.request_id = creating.id
                        /\ row.name = creating.guests[i].name
                        /\ row.relation = creating.guests[i].relation
                        /\ row.entry_code = NULL
               /\ \A i \in 1..Len(guest_rows) : guest_rows'[i] = guest_rows[i]
               /\ \A id \in {creating.id} :
                     /\ getGuestRequestById(id)' # {}
                     /\ \A r \in getGuestRequestById(id)' :
                           /\ Cardinality(r.guests) = Len(creating.guests)
                           /\ \A g \in r.guests : g.entryCode = NULL]_vars

\* createGuestRequest has answered 201 for a request of two guests, which
\* is PENDING and read back with two guests without codes
C24_Witness ==
    /\ last = 201
    /\ creating.pc = "idle"
    /\ updates = 0
    /\ \E r \in getGuestRequestById(1) :
          /\ r.status = "PENDING"
          /\ Cardinality(r.guests) = 2
          /\ \A g \in r.guests : g.entryCode = NULL

\* --------------------------------- properties of the ledger's rows

\* the step is a createMovementLog or recordVendorMovement call answered
\* with success (an updateStudentMovementRequest call that answers 200 ends
\* the call of its officer)
Created == last' = 201 \/ (last' = 200 /\ call' = call)

\* C25: a successful createMovementLog or recordVendorMovement adds one row
\* to the ledger and leaves the rows already there as they were, and no
\* step of any handler removes a row.
C25_OneRowAppended ==
    [][/\ Len(movement_logs') >= Len(movement_logs)
       /\ Created /\ (movement_logs' # movement_logs \/ last' # last \/ now' # now)
            => /\ Appends
               /\ \A i \in Ids : movement_logs'[i] = movement_logs[i]]_vars

\* recordVendorMovement has stored a row after s1's request, which is as
\* createMovementLog stored it
C25_Witness ==
    /\ last = 200
    /\ Len(movement_logs) = 2
    /\ movement_logs[1].student_id = "s1"
    /\ movement_logs[1].status = "PENDING"
    /\ movement_logs[1].timestamp = 1
    /\ movement_logs[2].entity_type = "VENDOR"
    /\ movement_logs[2].timestamp = 2

\* ------------------- properties of updateStudentMovementRequest's write

\* sequence p is the beginning of sequence q
IsPrefix(p, q) == Len(p) <= Len(q) /\ SubSeq(q, 1, Len(p)) = p

\* C26: the row an updateStudentMovementRequest call writes has the status
\* and the officer of the call and the time of the write, and for REJECTED
\* with a reason its remarks are the row's remarks as they were, followed
\* by the rejection note.
C26_RejectionNoteAppended ==
    \A o \in Officers :
        call[o].pc = "update"
            => \A t \in Instants :
                 LET row == movement_logs[call[o].id]
                     written == UpdatePayload(row, call[o], t)
                 IN /\ written.status = call[o].status
                    /\ written.gate_user_id = call[o].gateUserId
                    /\ written.timestamp = t
                    /\ (call[o].status = "REJECTED" /\ Truthy(call[o].rejectionReason))
                          => /\ IsPrefix(row.remarks, written.remarks)
                             /\ Len(written.remarks) > Len(row.remarks)

\* C27: when an officer's call resolves a student's ENTRY request to
\* COMPLETED, getStudentStatus reports the student inside, with the time of
\* the resolution as lastMovementTime, whatever COMPLETED movements of the
\* student were stored after the request was created.
C27_ResolvedEntryIsLatest ==
    [][\A o \in Officers :
         \A id \in {call[o].id} :
            (Writes(o) /\ last' = 200
               /\ movement_logs[id].movement_type = "ENTRY"
               /\ movement_logs'[id].status = "COMPLETED")
               => \A s \in {movement_logs[id].student_id} :
                     getStudentStatus(s)' =
                        {[isInside |-> TRUE, lastMovementTime |-> now',
                          lastMovementType |-> "ENTRY"]}]_vars

\* s1's ENTRY request of time 1 was resolved at time 4, after s1's EXIT was
\* COMPLETED at time 3: s1 is reported inside since 4
C27_Witness ==
    /\ last = 200
    /\ Len(movement_logs) = 2
    /\ movement_logs[1].student_id = "s1" /\ movement_logs[2].student_id = "s1"
    /\ movement_logs[1].movement_type = "ENTRY" /\ movement_logs[1].timestamp = 4
    /\ movement_logs[2].movement_type = "EXIT" /\ movement_logs[2].timestamp = 3
    /\ movement_logs[2].status = "COMPLETED"
    /\ getStudentStatus("s1") =
          {[isInside |-> TRUE, lastMovementTime |-> 4, lastMovementType |-> "ENTRY"]}

\* C28: a PENDING request can be resolved to REJECTED: the write of a call
\* with status REJECTED that finds the row PENDING is answered 200 and
\* leaves the row REJECTED.
C28_RejectionStored ==
    [][\A o \in Officers :
         \A id \in {call[o].id} :
            (Writes(o) /\ call[o].status = "REJECTED"
               /\ movement_logs[id].status = "PENDING")
               => /\ last' = 200
                  /\ movement_logs'[id].status = "REJECTED"]_vars

\* ------------------------------------- properties of the occupancy map

Refreshes == refreshes' = refreshes + 1

\* C30: while a user is logged in, the notifications of a burst (each less
\* than Debounce ms after the one before) are followed by one run of
\* loadData, which starts Debounce ms after the last of them: no loadData
\* runs earlier, the run takes all notifications since the run before, and
\* every notification is followed by a run (or by the user's logout).
C30_OneRefreshPerBurst ==
    /\ [][/\ Refreshes => (elapsed = Debounce /\ unserved >= 1 /\ unserved' = 0)
          /\ (elapsed < Debounce /\ user' # NULL)
                => (~Refreshes /\ unserved' >= unserved)]_vars
    /\ []((unserved > 0) => <>(unserved = 0))
    /\ [](unserved > 0 => realtimeDebounceRef # NoTimer)

\* two notifications less than Debounce ms apart were followed by one run
\* of loadData, and the user is still logged in
C30_Witness ==
    /\ user # NULL
    /\ notified = 2
    /\ refreshes = 1
    /\ unserved = 0
    /\ realtimeDebounceRef = NoTimer

\* --------------------------- properties of the stored guest requests

\* C31: in every reachable state a visit request has a rejection reason
\* only if its status is REJECTED.
C31_ReasonOnlyIfRejected ==
    \A id \in RequestIds :
        guest_requests[id].rejection_reason # NULL
            => guest_requests[id].status = "REJECTED"

\* C32: in every reachable state every guest holding an entry code belongs
\* to a request whose status is APPROVED.
C32_CodeOnlyIfApproved ==
    \A g \in GuestIds :
        guest_rows[g].entry_code # NULL
            => /\ guest_rows[g].request_id \in RequestIds
               /\ guest_requests[guest_rows[g].request_id].status = "APPROVED"

\* C33: a call of updateGuestRequestStatus(APPROVED) in which the store
\* refuses the write of a guest's code does not end in a success response:
\* the step that fails to write and ends the call answers no 200.
C33_FailedWriteSurfaced ==
    [][\A c \in Council :
         (WritesCode(c) /\ Collides(c) /\ Completes(c)) => last' # 200]_vars

\* ------------------------------ properties of the stored movements

\* C34: in every reachable state a row of the ledger is PENDING exactly
\* when its gate_user_id is null: a row that is COMPLETED (or REJECTED),
\* stored so by staff or resolved from PENDING, carries an officer, and no
\* PENDING row carries one.
C34_PendingIffNoOfficer ==
    \A i \in Ids :
        movement_logs[i].status = "PENDING" <=> movement_logs[i].gate_user_id = NULL

\* a request an officer has resolved, stored before a request still PENDING
C34_Witness ==
    /\ Len(movement_logs) = 2
    /\ movement_logs[1].entity_type = "STUDENT"
    /\ movement_logs[1].status = "COMPLETED"
    /\ movement_logs[1].gate_user_id \in Officers
    /\ movement_logs[1].timestamp > movement_logs[2].timestamp
    /\ movement_logs[2].status = "PENDING"
    /\ movement_logs[2].gate_user_id = NULL

\* ------------------------- properties of a stored visit request

\* C35: in every reachable state every APPROVED visit request has an
\* approved_by that names an existing user.
C35_ApprovedHasApprover ==
    \A id \in RequestIds :
        guest_requests[id].status = "APPROVED"
            => guest_requests[id].approved_by \in users

\* C36: every stored visit request has at least one guest in every state
\* another operation can observe, so none is read or approved with zero
\* guests.
C36_RequestHasGuests ==
    \A id \in RequestIds : GuestsOf(id) # {}

\* C37: every GUEST row of the ledger names a guest who, when the row was
\* stored, held an entry code and belonged to an APPROVED visit request.
C37_LoggedGuestApproved ==
    [][(Appends /\ NewRow.entity_type = "GUEST")
         => \A g \in {GuestRowOf[NewRow.guest_id]} :
               /\ guest_rows[g].entry_code # NULL
               /\ guest_requests[guest_rows[g].request_id].status = "APPROVED"]_vars

\* ------------------------------------ properties of the dashboard

\* C38: when no loadData call is in flight any more, the dashboard shows
\* the result of the call that was started last: a call started earlier
\* that finishes later does not overwrite it.
C38_NewestLoadWins ==
    (user # NULL /\ loads = {})
        => (logs = latestLoad.logs /\ guestRequests = latestLoad.guestRequests)

\* C39: after the subscription is torn down no reload scheduled by an
\* earlier notification runs: while no user is logged in no timeout is
\* pending, nothing is scheduled and loadData is not started by a timeout;
\* and a reload by a timeout serves a notification received since the
\* subscription was set up.
C39_NoReloadAfterTeardown ==
    /\ [](user = NULL => (realtimeDebounceRef = NoTimer /\ unserved = 0))
    /\ [][/\ (user = NULL /\ user' = NULL)
                 => (realtimeDebounceRef' = NoTimer /\ refreshes' = refreshes)
          /\ Refreshes => (user # NULL /\ unserved >= 1)]_vars

\* a logout between a notification and the end of its debounce window
C39_Witness ==
    /\ user = NULL
    /\ notified = 1
    /\ refreshes = 0
    /\ realtimeDebounceRef = NoTimer
====
